---- MODULE Spec2Model ----
(***************************************************************************)
(* A model of src/datamodule/samplers.py: the frame-count batch samplers   *)
(* (ByFrameCountSampler, ByFrameCountSamplerMultilang), the snapshot       *)
(* dataset DatasetFromSampler, the DistributedSamplerWrapper and the       *)
(* RandomSamplerWrapper.                                                   *)
(*                                                                         *)
(* The world is num_replicas processes that are given the same dataset    *)
(* and the same arguments.  Init is the state in which the sampler's       *)
(* __init__ has stored its fields (epoch = 0); construct is the rest of    *)
(* the constructors' run in every process (the same computation in each,   *)
(* so one step): the sizing pass of __init__, which sets num_batches or    *)
(* raises, then a DatasetFromSampler over the sampler and a                *)
(* DistributedSamplerWrapper of rank p over it.  After it process p owns   *)
(* epoch[p], sampler_list[p], dist_epoch[p]; out[p] is what the last call  *)
(* made by process p returned.                                             *)
(*                                                                         *)
(* Item indices are the code's: 0-based.  A Python list is a TLA+ sequence,*)
(* so the element at Python index i is s[i + 1].                           *)
(*                                                                         *)
(* Library code the file calls is modelled by what it computes:            *)
(*   torch.randperm(n, generator seeded s)  -> randperm(n, s)              *)
(*   np.lexsort(order)[::-1]                -> lexsort_reversed            *)
(*   fairseq data_utils.batch_by_size       -> batch_by_size               *)
(*   torch DistributedSampler               -> DistributedSampler_*        *)
(*   torch RandomSampler                    -> RandomSampler_iter          *)
(*   operator.itemgetter                    -> itemgetter_iter             *)
(***************************************************************************)
EXTENDS Integers, Sequences, FiniteSets, TLC

VARIABLES
    list,                \* dataset.list: the items, [frames, lang] each
    kind,                \* the sampler class the processes construct
    max_frames_per_gpu,  \* constructor argument
    shuffle,             \* constructor argument
    seed,                \* constructor argument
    max_language_token,  \* constructor argument (Multilang)
    num_replicas,        \* DistributedSamplerWrapper argument
    drop_last,           \* DistributedSamplerWrapper argument
    dist_shuffle,        \* DistributedSamplerWrapper argument (shuffle)
    status,              \* "new", "ok", or the exception __init__ raised
    sizes,               \* sampler.sizes, set by the constructor
    dataset_idx,         \* sampler.dataset_idx, set by the constructor
    num_batches,         \* sampler.num_batches, set by the constructor
    epoch,               \* epoch[p]: sampler.epoch of process p
    sampler_list,        \* sampler_list[p]: DatasetFromSampler.sampler_list
    dist_epoch,          \* dist_epoch[p]: DistributedSampler.epoch
    iterator,            \* iterator[p]: the iterator iter(sampler) returned
    out                  \* out[p]: the result of p's last call

vars == <<list, kind, max_frames_per_gpu, shuffle, seed, max_language_token,
          num_replicas, drop_last, dist_shuffle, status, sizes, dataset_idx,
          num_batches, epoch, sampler_list, dist_epoch, iterator, out>>

\* the dataset and the constructors' arguments
args == <<list, kind, max_frames_per_gpu, shuffle, seed, max_language_token,
          num_replicas, drop_last, dist_shuffle>>

\* what is fixed once the constructors have run
config == <<args, sizes, dataset_idx, status, num_batches>>

----------------------------------------------------------------------------
(* Bounds of the model. *)

MaxN == 2
MaxCost == 2
MaxSeed == 1
MaxEpoch == 1
MaxReplicas == 2

(* Program constants. *)

\* range(2, max_language_token + 1): the first language token
LowLang == 2
\* max_language_token=6, the constructor's default
DefaultMaxLanguageToken == 6
\* DistributedSampler's seed argument, left at its default
DistSeed == 0

PLAIN == "ByFrameCountSampler"
MULTI == "ByFrameCountSamplerMultilang"
SAMPLER == "Sampler"

Procs == 0 .. (num_replicas - 1)
Epochs == 0 .. MaxEpoch

----------------------------------------------------------------------------
(* Sequences. *)

RECURSIVE SeqSum(_)
SeqSum(s) == IF s = <<>> THEN 0 ELSE Head(s) + SeqSum(Tail(s))

RECURSIVE Flatten(_)
Flatten(ss) == IF ss = <<>> THEN <<>> ELSE Head(ss) \o Flatten(Tail(ss))

SeqRange(s) == {s[k] : k \in DOMAIN s}

SetMax(S) == CHOOSE x \in S : \A y \in S : y <= x

RemoveAt(s, k) == SubSeq(s, 1, k - 1) \o SubSeq(s, k + 1, Len(s))

\* list(range(n))
range(n) == [k \in 1 .. n |-> k - 1]

----------------------------------------------------------------------------
(* torch.randperm(n, generator=g) after g.manual_seed(s): a permutation of *)
(* 0..n-1 that is a function of (n, s) alone.  The generator is modelled   *)
(* as the enumeration of the permutations of 0..n-1 in lexicographic       *)
(* order, the seed selecting the (s mod n!)-th.                            *)

RECURSIVE Fact(_)
Fact(n) == IF n <= 1 THEN 1 ELSE n * Fact(n - 1)

RECURSIVE NthPerm(_, _)
NthPerm(k, pool) ==
    IF pool = <<>> THEN <<>>
    ELSE LET f == Fact(Len(pool) - 1)
             d == k \div f
         IN  <<pool[d + 1]>> \o NthPerm(k % f, RemoveAt(pool, d + 1))

randperm(n, s) == NthPerm(s % Fact(n), range(n))

----------------------------------------------------------------------------
(* np.lexsort([keys, sz])[::-1]: the positions 0..n-1 sorted ascending by  *)
(* sz, ties by keys (ties of both by position, the sort being stable),     *)
(* and the result reversed.                                                *)

LexLess(keys, sz, i, j) ==
    \/ sz[i + 1] < sz[j + 1]
    \/ sz[i + 1] = sz[j + 1] /\ keys[i + 1] < keys[j + 1]
    \/ sz[i + 1] = sz[j + 1] /\ keys[i + 1] = keys[j + 1] /\ i < j

lexsort_reversed(keys, sz) ==
    LET n == Len(sz)
        rank(i) == Cardinality({j \in 0 .. n - 1 : LexLess(keys, sz, j, i)})
    IN  [r \in 1 .. n |-> CHOOSE i \in 0 .. n - 1 : rank(i) = n - r]

----------------------------------------------------------------------------
(* fairseq's data_utils.batch_by_size(indices, num_tokens_fn, max_tokens)  *)
(* with max_sentences unset and required_batch_size_multiple = 1: walk     *)
(* indices in the given order; the running batch is closed before an item  *)
(* when (len(batch) + 1) * (longest item of batch and item) > max_tokens;  *)
(* an item longer than max_tokens fails the primitive's assertion.         *)
(* max_tokens <= 0 switches the limit off.  sz[i + 1] is                *)
(* num_tokens_fn(i).                                                       *)

RECURSIVE batch_by_size_from(_, _, _, _, _, _)
batch_by_size_from(indices, sz, max_tokens, k, batch, batches) ==
    IF k > Len(indices)
    THEN [ok |-> TRUE,
          batches |-> IF Len(batch) > 0 THEN Append(batches, batch) ELSE batches]
    ELSE LET idx == indices[k]
             sample_len ==
                 SetMax({sz[idx + 1]} \cup {sz[b + 1] : b \in SeqRange(batch)})
             num_tokens == (Len(batch) + 1) * sample_len
             full == /\ Len(batch) > 0
                     /\ max_tokens > 0
                     /\ num_tokens > max_tokens
         IN  IF max_tokens > 0 /\ sample_len > max_tokens
             THEN [ok |-> FALSE, batches |-> <<>>]
             ELSE IF full
             THEN batch_by_size_from(indices, sz, max_tokens, k + 1,
                                     <<idx>>, Append(batches, batch))
             ELSE batch_by_size_from(indices, sz, max_tokens, k + 1,
                                     Append(batch, idx), batches)

\* a variant, not the program's: a primitive that fails on an empty index
\* list
batch_by_size_nonempty(indices, sz, max_tokens) ==
    IF Len(indices) = 0 THEN [ok |-> FALSE, batches |-> <<>>]
    ELSE batch_by_size_from(indices, sz, max_tokens, 1, <<>>, <<>>)

batch_by_size(indices, sz, max_tokens) ==
    batch_by_size_from(indices, sz, max_tokens, 1, <<>>, <<>>)

----------------------------------------------------------------------------
(* ByFrameCountSampler *)

\* self.sizes = [item[2] for item in self.dataset.list]
ByFrameCountSampler_sizes == [k \in 1 .. Len(list) |-> list[k].frames]

\* len(self.dataset)
dataset_len == Len(list)

\* a seed that also depends on the rank of the process (not the program's)
generator_seed_by_rank(p) == seed + epoch[p] + p

\* g.manual_seed(self.seed + self.epoch)
generator_seed(p) == seed + epoch[p]

\* a variant, not the program's: the [::-1] forgotten, the order ascending
ByFrameCountSampler_get_indices_ascending(p) ==
    LET order == IF shuffle
                 THEN randperm(dataset_len, generator_seed(p))
                 ELSE range(dataset_len)
        desc == lexsort_reversed(order, sizes)
    IN  [r \in 1 .. Len(desc) |-> desc[Len(desc) + 1 - r]]

\* a variant, not the program's: the random order whatever the shuffle flag
ByFrameCountSampler_get_indices_shuffled(p) ==
    lexsort_reversed(randperm(dataset_len, generator_seed(p)), sizes)

ByFrameCountSampler_get_indices(p) ==
    LET order == IF shuffle
                 THEN randperm(dataset_len, generator_seed(p))
                 ELSE range(dataset_len)
    IN  lexsort_reversed(order, sizes)

\* a variant, not the program's: max_tokens not passed, so batch_by_size sets no limit
ByFrameCountSampler_iter_unbounded(p) ==
    LET indices == ByFrameCountSampler_get_indices(p)
        r == batch_by_size(indices, sizes, -1)
    IN  [ok |-> r.ok, batches |-> r.batches, indices |-> <<indices>>]

\* __iter__: the batches, and the indices _get_indices returned
ByFrameCountSampler_iter(p) ==
    LET indices == ByFrameCountSampler_get_indices(p)
        r == batch_by_size(indices, sizes, max_frames_per_gpu)
    IN  [ok |-> r.ok, batches |-> r.batches, indices |-> <<indices>>]

\* the sizing pass of __init__: batch_by_size over _get_indices() with
\* max_tokens=max_frames_per_gpu; num_batches is the number of batches
ByFrameCountSampler_init(p) ==
    LET indices == ByFrameCountSampler_get_indices(p)
        r == batch_by_size(indices, sizes, max_frames_per_gpu)
    IN  [ok |-> r.ok, batches |-> r.batches, indices |-> <<indices>>]

----------------------------------------------------------------------------
(* ByFrameCountSamplerMultilang *)

\* for j in range(2, max_language_token + 1): one partition per language
\* token; partition j (0-based, as self.sizes[j]) holds language LowLang + j
NumPartitions == max_language_token + 1 - LowLang

\* data_j = [k for k, item in enumerate(self.dataset.list)
\*           if item[3][0].item() == j]
\* a variant, not the program's: ">=" for "==", a partition also takes the later languages
Multilang_data_from(j) ==
    SelectSeq(range(Len(list)), LAMBDA k : list[k + 1].lang >= LowLang + j)

Multilang_data(j) ==
    SelectSeq(range(Len(list)), LAMBDA k : list[k + 1].lang = LowLang + j)

\* self.dataset_idx = dataset_new
Multilang_dataset_idx == [j1 \in 1 .. NumPartitions |-> Multilang_data(j1 - 1)]

\* size_j = [item[2] for item in self.dataset.list if item[3][0].item() == j]
Multilang_size(j) ==
    LET idx == Multilang_data(j)
    IN  [k \in 1 .. Len(idx) |-> list[idx[k] + 1].frames]

\* self.sizes = sizes
Multilang_sizes == [j1 \in 1 .. NumPartitions |-> Multilang_size(j1 - 1)]

Multilang_get_indices(p, j) ==
    LET order == IF shuffle
                 THEN randperm(Len(dataset_idx[j + 1]), generator_seed(p))
                 ELSE dataset_idx[j + 1]
    IN  lexsort_reversed(order, sizes[j + 1])

\* np.array([self.dataset_idx[j][bvali] for bvali in bval])
Multilang_remap(j, bval) ==
    [k \in 1 .. Len(bval) |-> dataset_idx[j + 1][bval[k] + 1]]

\* the body of the loop over j: partition j's batches, as global indices
Multilang_partition(p, j) ==
    LET indices == Multilang_get_indices(p, j)
        r == batch_by_size(indices, sizes[j + 1], max_frames_per_gpu)
    IN  [ok |-> r.ok,
         batches |-> [bk \in 1 .. Len(r.batches) |->
                         Multilang_remap(j, r.batches[bk])],
         indices |-> <<indices>>]

\* the loop over j of __iter__ (skip_empty = FALSE) and of the sizing pass
\* of __init__ (skip_empty = TRUE: "if len(self.sizes[j]) > 0"); an
\* exception in a partition ends the loop
RECURSIVE Multilang_loop(_, _, _, _)

\* a variant, not the program's: a partition's batches put before those collected so far
Multilang_loop_prepend(p, j, skip_empty, acc) ==
    IF j >= NumPartitions THEN acc
    ELSE LET r == Multilang_partition(p, j)
         IN  IF ~r.ok
             THEN [ok |-> FALSE, batches |-> <<>>, indices |-> <<>>]
             ELSE Multilang_loop(p, j + 1, skip_empty,
                      [ok |-> TRUE,
                       batches |-> r.batches \o acc.batches,
                       indices |-> acc.indices \o r.indices])

Multilang_loop(p, j, skip_empty, acc) ==
    IF j >= NumPartitions THEN acc
    ELSE IF skip_empty /\ Len(sizes[j + 1]) = 0
    THEN Multilang_loop(p, j + 1, skip_empty, acc)
    ELSE LET r == Multilang_partition(p, j)
         IN  IF ~r.ok
             THEN [ok |-> FALSE, batches |-> <<>>, indices |-> <<>>]
             ELSE Multilang_loop(p, j + 1, skip_empty,
                      [ok |-> TRUE,
                       batches |-> acc.batches \o r.batches,
                       indices |-> acc.indices \o r.indices])

Multilang_iter(p) ==
    Multilang_loop(p, 0, FALSE, [ok |-> TRUE, batches |-> <<>>, indices |-> <<>>])

Multilang_init(p) ==
    Multilang_loop(p, 0, TRUE, [ok |-> TRUE, batches |-> <<>>, indices |-> <<>>])

----------------------------------------------------------------------------
(* The sampler of process p, whichever class it is. *)

\* A sampler of another class given to DatasetFromSampler (its parameter
\* is any torch Sampler): its __len__ returns a number it declares, here
\* num_batches, and its iteration yields a list of its own, here one batch
\* for each item of the dataset.
Sampler_iter(p) ==
    [ok |-> TRUE, batches |-> [k \in 1 .. Len(list) |-> <<k - 1>>],
     indices |-> <<>>]

\* iter(sampler)
sampler_iter(p) ==
    IF kind = PLAIN THEN ByFrameCountSampler_iter(p)
    ELSE IF kind = MULTI THEN Multilang_iter(p)
    ELSE Sampler_iter(p)

\* the sizing pass of the constructor
sampler_init(p) ==
    IF kind = PLAIN THEN ByFrameCountSampler_init(p) ELSE Multilang_init(p)

\* a variant, not the program's: the number of items for the number of batches
sampler_len_items == dataset_len

\* len(sampler): __len__ of either class returns self.num_batches
sampler_len == num_batches

----------------------------------------------------------------------------
(* What a call returned.  Every result is a record of the same shape.      *)

NoResult ==
    [op |-> "none", at |-> -1, batches |-> <<>>, indices |-> <<>>,
     index |-> -1, val |-> <<>>, n |-> -1, yielded |-> <<>>]

\* DatasetFromSampler.sampler_list = None
NoneList == [built |-> FALSE, items |-> <<>>]

\* no iterator taken yet.  An iterator is the list iterator that
\* iter(batch_indices) returns: the batches it has handed out and those it
\* still holds, with the epoch of the __iter__ call that made it.
NoIterator == [live |-> FALSE, at |-> -1, consumed |-> <<>>, pending |-> <<>>]

----------------------------------------------------------------------------
(* The dataset and the arguments, and the constructors. *)

\* An item: item[2] is its frame count, item[3][0] its language token.
\* ByFrameCountSampler never reads the token.  For the Multilang sampler
\* the tokens are the one below the first language token (in no partition)
\* and the first two language tokens, and the frame counts the two extremes.
Items(k) ==
    IF k = PLAIN
    THEN [frames : 1 .. MaxCost, lang : {LowLang}]
    ELSE [frames : {1, MaxCost}, lang : (LowLang - 1) .. (LowLang + 1)]

ItemLists(k) == UNION {[1 .. n -> Items(k)] : n \in 0 .. MaxN}

\* The frame budgets: below, at and above the largest frame count.
Budgets == (MaxCost - 1) .. (MaxCost + 1)

Unconstructed ==
    /\ status = "new"
    /\ sizes = IF kind = PLAIN THEN ByFrameCountSampler_sizes ELSE Multilang_sizes
    /\ dataset_idx = IF kind = PLAIN THEN <<>> ELSE Multilang_dataset_idx
    /\ num_batches = -1
    /\ epoch = [p \in Procs |-> 0]
    /\ sampler_list = [p \in Procs |-> NoneList]
    /\ dist_epoch = [p \in Procs |-> 0]
    /\ iterator = [p \in Procs |-> NoIterator]
    /\ out = [p \in Procs |-> NoResult]

\* One process, every dataset and argument within the bounds.
InitBounded ==
    /\ kind \in {PLAIN, MULTI}
    /\ list \in ItemLists(kind)
    /\ max_frames_per_gpu \in Budgets
    /\ shuffle \in BOOLEAN
    /\ seed \in {0, MaxSeed}
    /\ max_language_token \in
           IF kind = PLAIN THEN {DefaultMaxLanguageToken}
           ELSE {LowLang, DefaultMaxLanguageToken}

\* The two datasets the repository's description works through: frame
\* counts [3,1,4,1,5] under budget 5, and language tokens 2, 2, 3, 1 with
\* frame counts 2, 2, 10, 1.
ScenarioCosts ==
    [k \in 1 .. 5 |-> [frames |-> <<3, 1, 4, 1, 5>>[k], lang |-> LowLang]]

ScenarioLanguages ==
    [k \in 1 .. 4 |-> [frames |-> <<2, 2, 10, 1>>[k], lang |-> <<2, 2, 3, 1>>[k]]]

InitScenario ==
    /\ \/ /\ kind = PLAIN
          /\ list = ScenarioCosts
          /\ max_frames_per_gpu = 5
          /\ max_language_token = DefaultMaxLanguageToken
       \/ /\ kind = MULTI
          /\ list = ScenarioLanguages
          /\ max_frames_per_gpu = 10
          /\ max_language_token = LowLang + 1
    /\ shuffle \in BOOLEAN
    /\ seed = 0

Init ==
    /\ InitBounded \/ InitScenario
    /\ num_replicas = 1
    /\ drop_last = FALSE
    /\ dist_shuffle = FALSE
    /\ Unconstructed

\* the sizing pass of the sampler's __init__: it sets num_batches or raises
construct ==
    /\ status = "new"
    /\ UNCHANGED <<args, sizes, dataset_idx, epoch, sampler_list, dist_epoch, iterator, out>>
    /\ LET r == sampler_init(0)
       IN  /\ status' = IF r.ok THEN "ok" ELSE "AssertionError"
           /\ num_batches' = IF r.ok THEN Len(r.batches) ELSE -1

----------------------------------------------------------------------------
(* The calls. *)

\* sampler.set_epoch(e) of either sampler class
set_epoch(p, e) ==
    /\ status = "ok"
    /\ epoch' = [epoch EXCEPT ![p] = e]
    /\ out' = [out EXCEPT ![p] = [NoResult EXCEPT !.op = "set_epoch"]]
    /\ UNCHANGED <<config, sampler_list, dist_epoch, iterator>>

\* a variant, not the program's: an iteration that moves the sampler on to
\* the next epoch
iterate_advancing(p) ==
    /\ status = "ok"
    /\ LET r == sampler_iter(p)
       IN  out' = [out EXCEPT ![p] =
                      IF r.ok
                      THEN [NoResult EXCEPT !.op = "iter", !.at = epoch[p],
                                            !.batches = r.batches,
                                            !.indices = r.indices]
                      ELSE [NoResult EXCEPT !.op = "raise"]]
    /\ epoch' = [epoch EXCEPT ![p] = (epoch[p] + 1) % (MaxEpoch + 1)]
    /\ UNCHANGED <<config, sampler_list, dist_epoch, iterator>>

\* list(iter(sampler)): one full iteration
iterate(p) ==
    /\ status = "ok"
    /\ LET r == sampler_iter(p)
       IN  out' = [out EXCEPT ![p] =
                      IF r.ok
                      THEN [NoResult EXCEPT !.op = "iter", !.at = epoch[p],
                                            !.batches = r.batches,
                                            !.indices = r.indices]
                      ELSE [NoResult EXCEPT !.op = "raise"]]
    /\ UNCHANGED <<config, epoch, sampler_list, dist_epoch, iterator>>

\* len(sampler)
len(p) ==
    /\ status = "ok"
    /\ out' = [out EXCEPT ![p] = [NoResult EXCEPT !.op = "len", !.n = sampler_len]]
    /\ UNCHANGED <<config, epoch, sampler_list, dist_epoch, iterator>>

\* a __getitem__ that builds the list anew on every call (not the program's)
DatasetFromSampler_fill_always(p, cache) ==
    LET r == sampler_iter(p)
    IN  IF r.ok THEN [built |-> TRUE, items |-> r.batches] ELSE cache

\* DatasetFromSampler.__getitem__, "if self.sampler_list is None:
\* self.sampler_list = list(self.sampler)": the field after it (still None
\* when the iteration raised)
DatasetFromSampler_fill(p, cache) ==
    IF cache.built THEN cache
    ELSE LET r == sampler_iter(p)
         IN  IF r.ok THEN [built |-> TRUE, items |-> r.batches] ELSE cache

\* DatasetFromSampler.__getitem__, "return self.sampler_list[index]"
DatasetFromSampler_at(cache, index) ==
    IF cache.built /\ index < Len(cache.items)
    THEN [ok |-> TRUE, val |-> cache.items[index + 1]]
    ELSE [ok |-> FALSE, val |-> <<>>]

\* DatasetFromSampler.__len__
DatasetFromSampler_len == sampler_len

\* DatasetFromSampler(sampler)[index] on the process's long-lived dataset
getitem(p, index) ==
    /\ status = "ok"
    /\ sampler_list' = [sampler_list EXCEPT
                           ![p] = DatasetFromSampler_fill(p, sampler_list[p])]
    /\ LET r == DatasetFromSampler_at(sampler_list'[p], index)
       IN  out' = [out EXCEPT ![p] =
                      IF r.ok
                      THEN [NoResult EXCEPT !.op = "getitem", !.at = epoch[p],
                                            !.index = index, !.val = r.val]
                      ELSE [NoResult EXCEPT !.op = "raise"]]
    /\ UNCHANGED <<config, epoch, dist_epoch, iterator>>

\* len(DatasetFromSampler(sampler))
size(p) ==
    /\ status = "ok"
    /\ out' = [out EXCEPT ![p] =
                  [NoResult EXCEPT !.op = "size", !.n = DatasetFromSampler_len]]
    /\ UNCHANGED <<config, epoch, sampler_list, dist_epoch, iterator>>

\* it = iter(sampler): __iter__ runs to its return, which is
\* iter(batch_indices) over the list it has just built
iter_open(p) ==
    /\ status = "ok"
    /\ LET r == sampler_iter(p)
       IN  iterator' = [iterator EXCEPT ![p] =
                           IF r.ok
                           THEN [live |-> TRUE, at |-> epoch[p],
                                 consumed |-> <<>>, pending |-> r.batches]
                           ELSE NoIterator]
    /\ UNCHANGED <<config, epoch, sampler_list, dist_epoch, out>>

\* a variant, not the program's: an iterator that computes its next batch
\* from the sampler when asked
iterator_next_lazy(p) ==
    LET now == sampler_iter(p).batches
        k == Len(iterator[p].consumed) + 1
    IN  [iterator[p] EXCEPT !.consumed = Append(@, now[k]),
                            !.pending = SubSeq(now, k + 1, Len(now))]

\* next(it) of the list iterator: the iterator after it
iterator_next(p) ==
    [iterator[p] EXCEPT !.consumed = Append(@, Head(iterator[p].pending)),
                        !.pending = Tail(@)]

\* next(it), while the iterator has a batch left
iter_next(p) ==
    /\ status = "ok"
    /\ iterator[p].live
    /\ iterator[p].pending # <<>>
    /\ iterator' = [iterator EXCEPT ![p] = iterator_next(p)]
    /\ UNCHANGED <<config, epoch, sampler_list, dist_epoch, out>>

----------------------------------------------------------------------------
(* DistributedSamplerWrapper over torch's DistributedSampler, whose        *)
(* dataset is DatasetFromSampler(sampler): len(self.dataset) is            *)
(* len(sampler) = num_batches.                                             *)

\* math.ceil(a / b) for b > 0
ceil_div(a, b) == -((-a) \div b)

\* DistributedSampler.__init__: self.num_samples
DistributedSampler_num_samples ==
    IF drop_last /\ DatasetFromSampler_len % num_replicas # 0
    THEN ceil_div(DatasetFromSampler_len - num_replicas, num_replicas)
    ELSE ceil_div(DatasetFromSampler_len, num_replicas)

\* DistributedSampler.__init__: self.total_size
DistributedSampler_total_size == DistributedSampler_num_samples * num_replicas

\* indices * m: the list repeated m times
RECURSIVE repeat(_, _)
repeat(s, m) == IF m <= 0 THEN <<>> ELSE s \o repeat(s, m - 1)

\* a variant, not the program's: the permutation seeded by the rank as well
DistributedSampler_iter_by_rank(p) ==
    LET n == DatasetFromSampler_len
        indices == IF dist_shuffle
                   THEN randperm(n, DistSeed + dist_epoch[p] + p)
                   ELSE range(n)
        padding_size == DistributedSampler_total_size - n
        padded ==
            IF ~drop_last
            THEN IF padding_size <= n
                 THEN indices \o SubSeq(indices, 1, padding_size)
                 ELSE indices \o SubSeq(repeat(indices, ceil_div(padding_size, n)),
                                        1, padding_size)
            ELSE SubSeq(indices, 1, DistributedSampler_total_size)
    IN  [k \in 1 .. DistributedSampler_num_samples |->
            padded[p + (k - 1) * num_replicas + 1]]

\* DistributedSampler.__iter__ of rank p: the indices into the dataset
DistributedSampler_iter(p) ==
    LET n == DatasetFromSampler_len
        indices == IF dist_shuffle
                   THEN randperm(n, DistSeed + dist_epoch[p])
                   ELSE range(n)
        padding_size == DistributedSampler_total_size - n
        padded ==
            IF ~drop_last
            THEN IF padding_size <= n
                 THEN indices \o SubSeq(indices, 1, padding_size)
                 ELSE indices \o SubSeq(repeat(indices, ceil_div(padding_size, n)),
                                        1, padding_size)
            ELSE SubSeq(indices, 1, DistributedSampler_total_size)
    IN  \* indices[self.rank:self.total_size:self.num_replicas]
        [k \in 1 .. DistributedSampler_num_samples |->
            padded[p + (k - 1) * num_replicas + 1]]

\* iter(itemgetter(*indexes_of_indexes)(subsampler_indexes)): with no index
\* itemgetter() raises TypeError; with one index itemgetter returns that
\* element of the dataset itself, and iterating it yields the item indices
\* of the batch; with more it returns the tuple of the elements.  An
\* element yielded is [whole |-> TRUE, v |-> the batch] or
\* [whole |-> FALSE, v |-> <<item index>>].
itemgetter_iter(indexes, items) ==
    IF Len(indexes) = 0
    THEN [ok |-> FALSE, yielded |-> <<>>]
    ELSE IF Len(indexes) = 1
    THEN LET batch == items[indexes[1] + 1]
         IN  [ok |-> TRUE,
              yielded |-> [k \in 1 .. Len(batch) |->
                              [whole |-> FALSE, v |-> <<batch[k]>>]]]
    ELSE [ok |-> TRUE,
          yielded |-> [k \in 1 .. Len(indexes) |->
                          [whole |-> TRUE, v |-> items[indexes[k] + 1]]]]

\* DistributedSamplerWrapper.__iter__ of rank p.  self.dataset is replaced
\* by a new DatasetFromSampler on every call and read only inside the call,
\* so it is a value of the call: filled by the first __getitem__, when
\* there is an index.  out keeps it (batches) with the indices the
\* sampler's _get_indices returned and the shard's indexes_of_indexes (val).
DistributedSamplerWrapper_iter(p) ==
    LET indexes_of_indexes == DistributedSampler_iter(p)
        snapshot == sampler_iter(p)
        r == itemgetter_iter(indexes_of_indexes, snapshot.batches)
    IN  IF r.ok
        THEN [NoResult EXCEPT !.op = "dist_iter", !.at = dist_epoch[p],
                              !.batches = snapshot.batches,
                              !.indices = snapshot.indices,
                              !.val = indexes_of_indexes,
                              !.yielded = r.yielded]
        ELSE [NoResult EXCEPT !.op = "raise"]

dist_iter(p) ==
    /\ status = "ok"
    /\ out' = [out EXCEPT ![p] = DistributedSamplerWrapper_iter(p)]
    /\ UNCHANGED <<config, epoch, sampler_list, dist_epoch, iterator>>

\* a set_epoch that leaves the wrapped sampler alone (not the program's)
DistributedSamplerWrapper_set_epoch_own(p, e) ==
    /\ dist_epoch' = [dist_epoch EXCEPT ![p] = e]
    /\ epoch' = epoch

\* DistributedSamplerWrapper.set_epoch: super().set_epoch(epoch), then
\* self.sampler.set_epoch(epoch)
DistributedSamplerWrapper_set_epoch(p, e) ==
    /\ dist_epoch' = [dist_epoch EXCEPT ![p] = e]
    /\ epoch' = [epoch EXCEPT ![p] = e]

dist_set_epoch(p, e) ==
    /\ status = "ok"
    /\ DistributedSamplerWrapper_set_epoch(p, e)
    /\ out' = [out EXCEPT ![p] = [NoResult EXCEPT !.op = "set_epoch"]]
    /\ UNCHANGED <<config, sampler_list, iterator>>

----------------------------------------------------------------------------
(* RandomSamplerWrapper over torch's RandomSampler, whose data_source is   *)
(* the DatasetFromSampler(sampler) of __init__: it is asked its length     *)
(* only, which is len(sampler) = num_batches.                              *)

\* RandomSampler.__iter__ without replacement, num_samples = n: one
\* torch.randperm(n) from a generator seeded with a fresh random number,
\* here the choice s.  With n = 0 there is no iterator: RandomSampler
\* refuses num_samples = 0 (ValueError).
RandomSampler_iter(s) ==
    LET n == DatasetFromSampler_len
    IN  IF n = 0 THEN [ok |-> FALSE, indexes |-> <<>>]
        ELSE [ok |-> TRUE, indexes |-> randperm(n, s)]

\* RandomSamplerWrapper.__iter__: self.dataset is a new DatasetFromSampler,
\* filled from the sampler at its current epoch by the first __getitem__
RandomSamplerWrapper_iter(p, s) ==
    LET indexes_of_indexes == RandomSampler_iter(s)
        snapshot == sampler_iter(p)
        r == itemgetter_iter(indexes_of_indexes.indexes, snapshot.batches)
    IN  IF indexes_of_indexes.ok /\ r.ok
        THEN [NoResult EXCEPT !.op = "rand_iter", !.at = epoch[p],
                              !.batches = snapshot.batches,
                              !.indices = snapshot.indices,
                              !.yielded = r.yielded]
        ELSE [NoResult EXCEPT !.op = "raise"]

rand_iter(p, s) ==
    /\ status = "ok"
    /\ out' = [out EXCEPT ![p] = RandomSamplerWrapper_iter(p, s)]
    /\ UNCHANGED <<config, epoch, sampler_list, dist_epoch, iterator>>

----------------------------------------------------------------------------
(* Spec: one process calling its sampler and its DatasetFromSampler.       *)

Next ==
    \/ construct
    \/ \E p \in Procs, e \in Epochs : set_epoch(p, e)
    \/ \E p \in Procs : iterate(p)
    \/ \E p \in Procs : len(p)
    \/ \E p \in Procs, index \in 0 .. DatasetFromSampler_len - 1 : getitem(p, index)
    \/ \E p \in Procs : size(p)

Spec == Init /\ [][Next]_vars

----------------------------------------------------------------------------
(* SpecIter: one process taking iterators from its sampler and consuming   *)
(* them batch by batch, with set_epoch calls in between.                   *)

NextIter ==
    \/ construct
    \/ \E p \in Procs, e \in Epochs : set_epoch(p, e)
    \/ \E p \in Procs : iter_open(p)
    \/ \E p \in Procs : iter_next(p)

SpecIter == Init /\ [][NextIter]_vars

----------------------------------------------------------------------------
(* SpecConfig: Spec for a ByFrameCountSampler constructed with a budget    *)
(* around zero: negative, zero and the smallest positive one, over every   *)
(* dataset within the bounds, the empty one included.                      *)

InitConfig ==
    /\ kind = PLAIN
    /\ list \in ItemLists(PLAIN)
    /\ max_frames_per_gpu \in -1 .. 1
    /\ shuffle \in BOOLEAN
    /\ seed \in {0, MaxSeed}
    /\ max_language_token = DefaultMaxLanguageToken
    /\ num_replicas = 1
    /\ drop_last = FALSE
    /\ dist_shuffle = FALSE
    /\ Unconstructed

SpecConfig == InitConfig /\ [][Next]_vars

----------------------------------------------------------------------------
(* SpecSource: one process with a DatasetFromSampler over a sampler of     *)
(* another class, already constructed, whose declared length and whose     *)
(* iteration are any within the bounds.                                    *)

InitSource ==
    /\ kind = SAMPLER
    /\ list \in {[k \in 1 .. n |-> [frames |-> 1, lang |-> LowLang]] :
                     n \in 0 .. MaxN + 1}
    /\ num_batches \in 0 .. MaxN + 1
    /\ status = "ok"
    /\ max_frames_per_gpu = 1
    /\ shuffle = FALSE
    /\ seed = 0
    /\ max_language_token = DefaultMaxLanguageToken
    /\ num_replicas = 1
    /\ drop_last = FALSE
    /\ dist_shuffle = FALSE
    /\ sizes = <<>>
    /\ dataset_idx = <<>>
    /\ epoch = [p \in Procs |-> 0]
    /\ sampler_list = [p \in Procs |-> NoneList]
    /\ dist_epoch = [p \in Procs |-> 0]
    /\ iterator = [p \in Procs |-> NoIterator]
    /\ out = [p \in Procs |-> NoResult]

NextSource ==
    \/ \E p \in Procs : iterate(p)
    \/ \E p \in Procs : len(p)
    \/ \E p \in Procs, index \in 0 .. DatasetFromSampler_len - 1 : getitem(p, index)
    \/ \E p \in Procs : size(p)

SpecSource == InitSource /\ [][NextSource]_vars

----------------------------------------------------------------------------
(* SpecReshuffle: one process iterating its RandomSamplerWrapper; the      *)
(* wrapper has no set_epoch, the caller sets the sampler's epoch.          *)

\* the seeds the generator of one iteration can get: one for each
\* permutation of the snapshot
RandomSeeds == 0 .. (Fact(IF num_batches > 0 THEN num_batches ELSE 0) - 1)

NextReshuffle ==
    \/ construct
    \/ \E p \in Procs, e \in Epochs : set_epoch(p, e)
    \/ \E p \in Procs, s \in RandomSeeds : rand_iter(p, s)

SpecReshuffle == Init /\ [][NextReshuffle]_vars

----------------------------------------------------------------------------
(* SpecShard: num_replicas processes, each calling only its                *)
(* DistributedSamplerWrapper.  The dataset is n items of one frame each    *)
(* and of the first language token, so that with shuffle every order of a  *)
(* snapshot occurs.                                                        *)

InitShard ==
    /\ kind \in {PLAIN, MULTI}
    /\ list \in {[k \in 1 .. n |-> [frames |-> 1, lang |-> LowLang]] : n \in 0 .. MaxN}
    /\ max_frames_per_gpu \in {1, MaxCost}
    /\ shuffle \in BOOLEAN
    /\ seed \in {0, MaxSeed}
    /\ max_language_token = DefaultMaxLanguageToken
    /\ num_replicas \in 1 .. MaxReplicas
    /\ drop_last \in BOOLEAN
    /\ dist_shuffle \in BOOLEAN
    /\ Unconstructed

NextShard ==
    \/ construct
    \/ \E p \in Procs, e \in Epochs : dist_set_epoch(p, e)
    \/ \E p \in Procs : dist_iter(p)

SpecShard == InitShard /\ [][NextShard]_vars


----------------------------------------------------------------------------
(* What the properties below are stated with. *)

\* the summed frame count of a batch of (global) item indices
BatchCost(batch) == SeqSum([k \in DOMAIN batch |-> list[batch[k] + 1].frames])

\* every element of S is in exactly one batch, and nothing else is
ExactlyOnce(batches, S) ==
    LET flat == Flatten(batches)
    IN  Len(flat) = Cardinality(S) /\ SeqRange(flat) = S

\* s is a permutation of 0 .. n-1
IsPermutation(s, n) == Len(s) = n /\ SeqRange(s) = 0 .. n - 1

\* the language token of item i is one of range(2, max_language_token + 1)
InRange(i) ==
    list[i + 1].lang >= LowLang /\ list[i + 1].lang <= max_language_token

\* the order _get_indices of ByFrameCountSampler breaks ties with
TiebreakOrder(p) ==
    IF shuffle THEN randperm(Len(list), seed + epoch[p]) ELSE range(Len(list))

Iterated(p) == status = "ok" /\ out[p].op = "iter"

----------------------------------------------------------------------------
\* C1: ByFrameCountSampler, budget >= the largest frame count: construction
\* and iteration do not raise, and one full iteration, at any epoch, seed
\* and shuffle flag, yields batches whose summed frame count is each within
\* the budget and that hold every index of [0, N) exactly once.
C1_BudgetAndCoverage ==
    (kind = PLAIN /\ \A k \in DOMAIN sizes : sizes[k] <= max_frames_per_gpu) =>
        /\ status # "AssertionError"
        /\ \A p \in Procs :
              /\ out[p].op # "raise"
              /\ Iterated(p) =>
                    /\ \A b \in DOMAIN out[p].batches :
                          BatchCost(out[p].batches[b]) <= max_frames_per_gpu
                    /\ ExactlyOnce(out[p].batches, 0 .. Len(list) - 1)

\* an iteration of a shuffling ByFrameCountSampler after set_epoch that
\* yields several batches, one of several items
C1_Witness ==
    \E p \in Procs :
        /\ kind = PLAIN /\ Iterated(p) /\ shuffle /\ epoch[p] >= 1
        /\ Len(out[p].batches) >= 2
        /\ \E b \in DOMAIN out[p].batches : Len(out[p].batches[b]) >= 2

\* C3: ByFrameCountSamplerMultilang: in every iteration all indices of one
\* batch have the same language token, and the tokens of successive batches
\* are non-decreasing.
C3_BatchesByCategory ==
    \A p \in Procs :
        (kind = MULTI /\ Iterated(p)) =>
            LET bs == out[p].batches
                lang(i) == list[i + 1].lang
            IN  /\ \A b \in DOMAIN bs : \A k \in DOMAIN bs[b] :
                      lang(bs[b][k]) = lang(bs[b][1])
                /\ \A b \in 1 .. Len(bs) - 1 :
                      lang(bs[b][1]) <= lang(bs[b + 1][1])

\* an iteration after set_epoch with a batch of two items and batches of
\* two different language tokens
C3_Witness ==
    \E p \in Procs :
        /\ kind = MULTI /\ Iterated(p) /\ epoch[p] >= 1
        /\ \E b \in DOMAIN out[p].batches : Len(out[p].batches[b]) >= 2
        /\ \E b, c \in DOMAIN out[p].batches :
              list[out[p].batches[b][1] + 1].lang
                  # list[out[p].batches[c][1] + 1].lang

\* C5: for both samplers the number of batches an iteration yields, at any
\* epoch, is the num_batches stored at construction (what len returns), so
\* the size of a DatasetFromSampler (asked before or after the list is
\* built) is the length of the list once built.
C5_LengthIsBatchCount ==
    \A p \in Procs :
        /\ Iterated(p) => Len(out[p].batches) = sampler_len
        /\ out[p].op = "len" => out[p].n = Len(sampler_iter(p).batches)
        /\ sampler_list[p].built =>
              Len(sampler_list[p].items) = DatasetFromSampler_len
        /\ (out[p].op = "size" /\ sampler_list[p].built) =>
              out[p].n = Len(sampler_list[p].items)

\* size asked of a DatasetFromSampler whose list of several batches was
\* built by a shuffling sampler, after set_epoch
C5_Witness ==
    \E p \in Procs :
        /\ shuffle /\ epoch[p] >= 1 /\ out[p].op = "size"
        /\ sampler_list[p].built /\ Len(sampler_list[p].items) >= 2

C7_TiesKeepOrder ==
    \A p \in Procs :
        (kind = PLAIN /\ Iterated(p)) =>
            LET ind == out[p].indices[1]
                key == TiebreakOrder(p)
            IN  /\ IsPermutation(ind, Len(list))
                /\ \A a \in 1 .. Len(ind) - 1 :
                      sizes[ind[a] + 1] >= sizes[ind[a + 1] + 1]
                /\ \A a, b \in DOMAIN ind :
                      (a < b /\ sizes[ind[a] + 1] = sizes[ind[b] + 1]) =>
                          key[ind[a] + 1] < key[ind[b] + 1]
                /\ (list = ScenarioCosts /\ ~shuffle) => ind = <<4, 2, 0, 1, 3>>

\* C7 as amended: ... a permutation of [0, N) of non-increasing frame count
\* in which items of equal frame count come in the REVERSE of the tiebreak
\* order (the higher index first when shuffle is off); for frame counts
\* [3,1,4,1,5] without shuffle it returns [4,2,0,3,1].
C7_TiesReversed ==
    \A p \in Procs :
        (kind = PLAIN /\ Iterated(p)) =>
            LET ind == out[p].indices[1]
                key == TiebreakOrder(p)
            IN  /\ IsPermutation(ind, Len(list))
                /\ \A a \in 1 .. Len(ind) - 1 :
                      sizes[ind[a] + 1] >= sizes[ind[a + 1] + 1]
                /\ \A a, b \in DOMAIN ind :
                      (a < b /\ sizes[ind[a] + 1] = sizes[ind[b] + 1]) =>
                          key[ind[a] + 1] > key[ind[b] + 1]
                /\ (list = ScenarioCosts /\ ~shuffle) => ind = <<4, 2, 0, 3, 1>>

\* the iteration over frame counts [3,1,4,1,5] without shuffle
C7_Witness ==
    \E p \in Procs :
        /\ kind = PLAIN /\ Iterated(p) /\ list = ScenarioCosts /\ ~shuffle
        /\ out[p].indices[1] = <<4, 2, 0, 3, 1>>

\* C8: ByFrameCountSamplerMultilang with the token range
\* [2, max_language_token]: at every epoch every item whose token is in the
\* range is in exactly one batch of an iteration and no other item is in
\* any; the constructor raises only for an item in the range, and no call
\* after it raises.
C8_RangeCoverage ==
    kind = MULTI =>
        /\ status = "AssertionError" =>
              \E i \in 0 .. Len(list) - 1 :
                  InRange(i) /\ list[i + 1].frames > max_frames_per_gpu
        /\ \A p \in Procs :
              /\ out[p].op # "raise"
              /\ Iterated(p) =>
                    ExactlyOnce(out[p].batches,
                                {i \in 0 .. Len(list) - 1 : InRange(i)})

\* an iteration after set_epoch over a dataset with an item in the range
\* and an item outside it whose frame count exceeds the budget
C8_Witness ==
    \E p \in Procs :
        /\ kind = MULTI /\ Iterated(p) /\ epoch[p] >= 1
        /\ out[p].batches # <<>>
        /\ \E i \in 0 .. Len(list) - 1 :
              ~InRange(i) /\ list[i + 1].frames > max_frames_per_gpu

----------------------------------------------------------------------------
(* Properties of the DistributedSamplerWrapper (SpecShard). *)

ShardIterated(p) == status = "ok" /\ out[p].op = "dist_iter"

\* the snapshot length L
SnapshotLen == DatasetFromSampler_len

\* how many times the shards together yielded the batch b, as a batch
TimesYielded(b) ==
    Cardinality({pk \in UNION {{<<p, k>> : k \in DOMAIN out[p].yielded} : p \in Procs} :
                    LET y == out[pk[1]].yielded[pk[2]] IN y.whole /\ y.v = b})

\* how many elements the shards together yielded
TotalYielded == SeqSum([k \in 1 .. num_replicas |-> Len(out[k - 1].yielded)])

\* C4: _get_indices is deterministic and history-free: two iterations at
\* the same epoch, by separately constructed samplers of the same
\* arguments, each after its own sequence of set_epoch and iterate calls,
\* got the same index lists from _get_indices.
C4_IndicesDeterministic ==
    \A p, q \in Procs :
        (ShardIterated(p) /\ ShardIterated(q) /\ out[p].at = out[q].at) =>
            out[p].indices = out[q].indices

\* two processes, shuffling, iterated at the same epoch after set_epoch,
\* over an index list of at least two items
C4_Witness ==
    \E p, q \in Procs :
        /\ p # q /\ shuffle
        /\ ShardIterated(p) /\ ShardIterated(q)
        /\ out[p].at >= 1 /\ out[p].at = out[q].at
        /\ \E j \in DOMAIN out[p].indices : Len(out[p].indices[j]) >= 2

\* C9: after any sequence of set_epoch calls on the wrapper, the epoch of
\* the DistributedSampler and the epoch of the wrapped sampler are equal.
C9_EpochPropagates ==
    \A p \in Procs : dist_epoch[p] = epoch[p]

\* a process whose last call was set_epoch to an epoch other than 0, the
\* wrapped sampler being at that epoch
C9_Witness ==
    \E p \in Procs :
        out[p].op = "set_epoch" /\ dist_epoch[p] >= 1 /\ epoch[p] >= 1

\* C2 as claimed: when all shards have iterated at one epoch e, what they
\* yielded is, together, the snapshot of the wrapped sampler at e: every
\* element yielded is a batch of the snapshot, there are total_size of
\* them, no batch is yielded twice with drop_last, and every batch is
\* yielded at least once without it.
C2_ShardsUnionIsSnapshot ==
    (status = "ok" /\ \A p \in Procs : ShardIterated(p) /\ out[p].at = out[0].at) =>
        LET snapshot == out[0].batches
        IN  /\ \A p \in Procs : \A k \in DOMAIN out[p].yielded :
                  /\ out[p].yielded[k].whole
                  /\ out[p].yielded[k].v \in SeqRange(snapshot)
            /\ TotalYielded = DistributedSampler_total_size
            /\ \A b \in DOMAIN snapshot :
                  IF drop_last THEN TimesYielded(snapshot[b]) <= 1
                               ELSE TimesYielded(snapshot[b]) >= 1

\* C10 as claimed: with a snapshot of L >= 1 batches every shard's
\* iteration yields floor(L / k) elements with drop_last and ceil(L / k)
\* without it, and does not raise.
C10_EqualShardSizes ==
    (status = "ok" /\ SnapshotLen >= 1) =>
        \A p \in Procs :
            /\ out[p].op # "raise"
            /\ ShardIterated(p) =>
                  Len(out[p].yielded) =
                      IF drop_last THEN SnapshotLen \div num_replicas
                                   ELSE ceil_div(SnapshotLen, num_replicas)

----------------------------------------------------------------------------
(* Properties of iterators in flight (SpecIter). *)

\* the whole sequence of an iterator: what it handed out, then what it holds
IteratorSequence(it) == it.consumed \o it.pending

\* C11: set_epoch does not affect an iteration in flight: an iterator is
\* made holding the batch sequence of the epoch of its __iter__ call; a
\* set_epoch leaves every iterator as it is; and each next hands out the
\* next batch of that same sequence.  Only a later __iter__ uses the new
\* epoch.
C11_InFlightIterationKeepsEpoch ==
    [][\A p \in Procs :
          /\ epoch'[p] # epoch[p] => iterator'[p] = iterator[p]
          /\ iterator'[p] # iterator[p] =>
                \/ /\ iterator'[p].live
                   /\ iterator'[p].at = epoch[p]
                   /\ iterator'[p].consumed = <<>>
                   /\ iterator'[p].pending = sampler_iter(p).batches
                \/ /\ iterator[p].live /\ iterator'[p].live
                   /\ iterator'[p].at = iterator[p].at
                   /\ Len(iterator'[p].consumed) = Len(iterator[p].consumed) + 1
                   /\ IteratorSequence(iterator'[p]) = IteratorSequence(iterator[p])
      ]_vars

\* an iterator of a shuffling sampler, part consumed, the sampler now at
\* another epoch whose batch sequence is a different one
C11_Witness ==
    \E p \in Procs :
        /\ status = "ok" /\ shuffle /\ iterator[p].live
        /\ iterator[p].at # epoch[p]
        /\ iterator[p].consumed # <<>> /\ iterator[p].pending # <<>>
        /\ IteratorSequence(iterator[p]) # sampler_iter(p).batches

----------------------------------------------------------------------------
(* Properties of the constructor's error cases (Spec). *)

\* C12 as claimed: ByFrameCountSampler with a positive budget and an item
\* whose frame count exceeds it: the constructor and the iteration do not
\* raise, such an item is in a batch of its own, every index of [0, N) is
\* in exactly one batch, and every batch of several items is within the
\* budget.
C12_OversizedItemsAlone ==
    (kind = PLAIN /\ max_frames_per_gpu > 0) =>
        /\ status # "AssertionError"
        /\ \A p \in Procs :
              /\ out[p].op # "raise"
              /\ Iterated(p) =>
                    /\ ExactlyOnce(out[p].batches, 0 .. Len(list) - 1)
                    /\ \A b \in DOMAIN out[p].batches :
                          LET batch == out[p].batches[b]
                          IN  /\ (\E k \in DOMAIN batch :
                                     sizes[batch[k] + 1] > max_frames_per_gpu)
                                  => Len(batch) = 1
                              /\ Len(batch) >= 2 =>
                                     BatchCost(batch) <= max_frames_per_gpu

----------------------------------------------------------------------------
(* Properties of the RandomSamplerWrapper (SpecReshuffle). *)

\* C13 as claimed: with a snapshot of L >= 1 batches an iteration of the
\* RandomSamplerWrapper does not raise and yields L elements, each a whole
\* batch of the sampler's snapshot at its current epoch and each batch of
\* it once; the sampler's epoch is the one the caller set.
C13_ReshuffleIsPermutation ==
    (status = "ok" /\ SnapshotLen >= 1) =>
        \A p \in Procs :
            /\ out[p].op # "raise"
            /\ out[p].op = "rand_iter" =>
                  /\ out[p].at = epoch[p]
                  /\ Len(out[p].yielded) = SnapshotLen
                  /\ \A k \in DOMAIN out[p].yielded : out[p].yielded[k].whole
                  /\ \A b \in DOMAIN out[p].batches :
                        Cardinality({k \in DOMAIN out[p].yielded :
                                        out[p].yielded[k].v = out[p].batches[b]}) = 1

----------------------------------------------------------------------------
\* C14: ByFrameCountSamplerMultilang with language tokens of the range
\* that no item has: the constructor raises only for an item of a
\* partition, no iteration raises, an empty partition has no indices and
\* no batches, and the batches of an iteration are those of the loop that
\* leaves the empty partitions out, as many as the constructor counted.
C14_EmptyPartitions ==
    kind = MULTI =>
        /\ status = "AssertionError" =>
              \E j \in DOMAIN sizes : \E k \in DOMAIN sizes[j] :
                  sizes[j][k] > max_frames_per_gpu
        /\ \A p \in Procs :
              /\ out[p].op # "raise"
              /\ Iterated(p) =>
                    /\ \A j \in DOMAIN sizes :
                          Len(sizes[j]) = 0 =>
                              /\ out[p].indices[j] = <<>>
                              /\ Multilang_partition(p, j - 1).batches = <<>>
                    /\ out[p].batches = Multilang_init(p).batches
                    /\ Len(out[p].batches) = num_batches

\* an iteration after set_epoch that yields batches, with an empty
\* partition before a partition that has items
C14_Witness ==
    \E p \in Procs :
        /\ kind = MULTI /\ Iterated(p) /\ epoch[p] >= 1
        /\ out[p].batches # <<>>
        /\ \E i, j \in DOMAIN sizes :
              i < j /\ Len(sizes[i]) = 0 /\ Len(sizes[j]) > 0

----------------------------------------------------------------------------
(* Properties of DatasetFromSampler over any sampler (SpecSource). *)

\* C15 as claimed: when the list DatasetFromSampler built from its sampler
\* has another length than len(sampler), no __getitem__ returns an element
\* of it (the call raises).
C15_MismatchIsFatal ==
    \A p \in Procs :
        (sampler_list[p].built
            /\ Len(sampler_list[p].items) # DatasetFromSampler_len) =>
                out[p].op # "getitem"

----------------------------------------------------------------------------
(* Properties of the constructor's arguments (SpecConfig). *)

\* C16 as claimed: a ByFrameCountSampler constructed with a budget <= 0 or
\* over an empty dataset never returns a length and never yields the
\* batches of an iteration: the constructor, or the first __len__ or
\* __iter__, raises.
C16_ConfigErrorsFailFast ==
    (kind = PLAIN /\ (max_frames_per_gpu <= 0 \/ Len(list) = 0)) =>
        \A p \in Procs : out[p].op \notin {"len", "iter"}

----------------------------------------------------------------------------
(* More properties of the DistributedSamplerWrapper (SpecShard). *)

\* C17 as claimed: an iteration of the wrapper yields, in the order of the
\* shard's indexes, the batches of the snapshot at those indexes, each a
\* whole batch, also when the shard has exactly one index.
C17_ShardYieldsWholeBatches ==
    \A p \in Procs :
        ShardIterated(p) =>
            out[p].yielded =
                [k \in 1 .. Len(out[p].val) |->
                    [whole |-> TRUE, v |-> out[p].batches[out[p].val[k] + 1]]]

\* C18: what a shard iterates at an epoch does not depend on its earlier
\* set_epoch and iterate calls: shards that iterated at the same epoch,
\* each after a history of its own, hold the same snapshot, which is the
\* sampler's iteration at that epoch, and took their indexes from the same
\* permutation of it: without padding no two shards have an index in
\* common, and when all shards have iterated at that epoch every index of
\* the snapshot is some shard's unless drop_last dropped it.
C18_ShardsAgree ==
    \A p, q \in Procs :
        (ShardIterated(p) /\ ShardIterated(q) /\ out[p].at = out[q].at) =>
            /\ out[p].at = epoch[p]
            /\ out[p].batches = sampler_iter(p).batches
            /\ out[p].batches = out[q].batches
            /\ (p # q /\ DistributedSampler_total_size <= SnapshotLen) =>
                  SeqRange(out[p].val) \cap SeqRange(out[q].val) = {}
            /\ (\A r \in Procs : ShardIterated(r) /\ out[r].at = out[p].at) =>
                  Cardinality(UNION {SeqRange(out[r].val) : r \in Procs}) =
                      IF drop_last THEN DistributedSampler_total_size
                                   ELSE SnapshotLen

\* two shards, the wrapper and the sampler both shuffling, that iterated at
\* the same epoch after set_epoch over a snapshot of several batches
C18_Witness ==
    \E p, q \in Procs :
        /\ p # q /\ shuffle /\ dist_shuffle
        /\ ShardIterated(p) /\ ShardIterated(q)
        /\ out[p].at >= 1 /\ out[p].at = out[q].at
        /\ Len(out[p].batches) >= 2
        /\ out[p].val # out[q].val

----------------------------------------------------------------------------
(* What the calls leave alone (Spec). *)

\* C19: once the sampler is constructed no call changes the dataset, the
\* arguments (budget, shuffle, seed), sizes or num_batches; the epoch is
\* changed by set_epoch only, which changes nothing else; __iter__,
\* __len__ and the DatasetFromSampler's __getitem__ and __len__ leave the
\* epoch as it is.
C19_OnlySetEpochChangesEpoch ==
    [][status = "ok" =>
          /\ config' = config
          /\ \A p \in Procs :
                /\ epoch'[p] # epoch[p] =>
                      /\ out'[p].op = "set_epoch"
                      /\ sampler_list' = sampler_list
                      /\ iterator' = iterator
                      /\ dist_epoch' = dist_epoch
                /\ out'[p].op \in {"iter", "len", "getitem", "size", "raise"} =>
                      epoch' = epoch
      ]_vars

\* the sampler set to another epoch after the DatasetFromSampler built its
\* list of several batches
C19_Witness ==
    \E p \in Procs :
        /\ status = "ok" /\ out[p].op = "set_epoch" /\ epoch[p] >= 1
        /\ sampler_list[p].built /\ num_batches >= 2
        /\ Len(sampler_list[p].items) = num_batches

----------------------------------------------------------------------------
(* The epoch without shuffle (SpecIter). *)

\* C20: with shuffle off the epoch cannot be observed: the batch sequence
\* an iterator got at the epoch of its __iter__ call (epoch 0 or a later
\* one) is the batch sequence an iteration of the sampler yields at the
\* epoch it has been set to since, batch for batch and index for index,
\* for either sampler class and every seed.
C20_EpochUnobservableWithoutShuffle ==
    \A p \in Procs :
        (status = "ok" /\ ~shuffle /\ iterator[p].live) =>
            IteratorSequence(iterator[p]) = sampler_iter(p).batches

\* an iterator taken at epoch 0 from a sampler that does not shuffle, has
\* a seed other than 0 and two items of the same frame count and language,
\* the sampler since set to a later epoch
C20_Witness ==
    \E p \in Procs :
        /\ status = "ok" /\ ~shuffle /\ seed >= 1
        /\ iterator[p].live /\ iterator[p].at = 0 /\ epoch[p] >= 1
        /\ Len(IteratorSequence(iterator[p])) >= 2
        /\ \E i, j \in DOMAIN list :
              i < j /\ list[i] = list[j] /\ InRange(i - 1)

====
